---- MODULE Spec2Model ----
(***************************************************************************)
(* The safety gate of seealln-rs (src/seealln-rs/src/hands.rs): the shared *)
(* HandsInner state behind one mutex, the control handlers (arm, disarm,   *)
(* kill, reset, scope, status) and the action handlers (move, click, type) *)
(* that go through HandsState::consume_action.                             *)
(*                                                                         *)
(* Every acquisition of the mutex is one atomic step.  consume_action      *)
(* takes the mutex three times (is_killed, is_armed, the rate window), so  *)
(* an action request is a small process whose steps other requests and the *)
(* clock may interleave with.  Time is the monotonic clock in milliseconds;*)
(* under Spec an Instant::now() on the line before a lock() is read in the *)
(* step that takes the lock; under SpecRace, where two action handlers     *)
(* race, the read of line 129 is a step of its own.  SpecClamp calls       *)
(* ScopeRect::clamp_point directly.                                        *)
(***************************************************************************)
EXTENDS Integers, Sequences, FiniteSets, TLC

VARIABLES
    inner,      \* HandsInner, the data behind the mutex
    now,        \* the monotonic clock (Instant::now()), in ms
    env,        \* the process environment and build features (fixed at start)
    pc,         \* per action handler: where it stands in its request
    req,        \* per action handler: the token of the request it serves
    last,       \* what the step just taken returned (response / consume result),
                \* until it is delivered
    call,       \* a direct call of ScopeRect::clamp_point: arguments and result
    tnow,       \* per action handler: the Instant::now() it read on line 129,
                \* when that read is a step of its own
    hist        \* history of the rate window: the calls that reached it

vars == <<inner, now, env, pc, req, last, call, tnow, hist>>

(***************************************************************************)
(* Option<T> is a set with at most one element.                            *)
(***************************************************************************)
None == {}
Some(v) == {v}
Unwrap(o) == CHOOSE v \in o : TRUE

(***************************************************************************)
(* Bounds of the model.                                                    *)
(***************************************************************************)
\* The instants (ms) at which the clock is observed.
Instants == {0, 1100, 5000, 6100}
\* The handler tasks that serve action requests.
Procs == {"h1", "h2"}
\* The tasks that serve action requests under Spec: one action request is in
\* flight at a time, interleaved with any number of control requests.
Serving == {"h1"}
\* Nanoseconds gen_token may measure between Instant::now() and elapsed().
ElapsedNanos == {40, 41}
\* ttl_ms query parameters of /hands/arm.
TtlParams == {None, Some(1000)}
\* The largest SEEALLN_HANDS_MAX_ACTIONS the environment sets.
MaxActionsInput == 2
\* The calls that reach one rate window are counted up to this number.
MaxRaceCalls == 4

(***************************************************************************)
(* Program constants.                                                      *)
(***************************************************************************)
DefaultMaxActions == 20
DefaultWindowMs == 10000
DefaultTtlMs == 30000
MinTtlMs == 5000
MaxTtlMs == 300000
StatusOk == 200
StatusBadRequest == 400
StatusForbidden == 403
StatusPreconditionRequired == 428
StatusInternalError == 500
StatusNotImplemented == 501

(***************************************************************************)
(* Strings that the code parses or compares are sequences of characters.   *)
(***************************************************************************)
Digits == <<"0", "1", "2", "3", "4", "5", "6", "7", "8", "9">>
IsDigit(c) == \E d \in 1..10 : Digits[d] = c
DigitVal(c) == (CHOOSE d \in 1..10 : Digits[d] = c) - 1

\* str::parse::<u32>() / parse::<u64>() followed by .ok(): decimal digits only
\* (the inputs of the model stay far below the integer width).
RECURSIVE parse_digits(_, _)
parse_digits(s, acc) ==
    IF s = <<>> THEN Some(acc)
    ELSE IF IsDigit(Head(s)) THEN parse_digits(Tail(s), acc * 10 + DigitVal(Head(s)))
    ELSE None
parse_uint(s) == IF s = <<>> THEN None ELSE parse_digits(s, 0)

\* a clamp with no lower bound
clamp_upper_only(v, lo, hi) == IF v > hi THEN hi ELSE v

\* Ord::clamp
clamp(v, lo, hi) == IF v < lo THEN lo ELSE IF v > hi THEN hi ELSE v

\* u8::to_ascii_lowercase on the characters the inputs use
Upper == <<"Y", "E", "S", "N", "O", "P", "T">>
Lower == <<"y", "e", "s", "n", "o", "p", "t">>
to_ascii_lowercase(c) ==
    IF \E k \in 1..Len(Upper) : Upper[k] = c
    THEN Lower[CHOOSE k \in 1..Len(Upper) : Upper[k] = c]
    ELSE c
eq_ignore_ascii_case(a, b) ==
    /\ Len(a) = Len(b)
    /\ \A k \in 1..Len(a) : to_ascii_lowercase(a[k]) = to_ascii_lowercase(b[k])

\* HeaderValue::to_str().ok(): only visible ASCII (and tab) converts
NonAscii == "\\x80"
to_str(v) == IF \E k \in 1..Len(v) : v[k] = NonAscii THEN None ELSE Some(v)

\* a gate that is content with the header being there
confirm_header_present(h) == h.confirm # None

\* The x-seealln-confirm gate of safety_reset, hands_click and hands_type.
confirm_header(h) ==
    IF h.confirm = None THEN FALSE
    ELSE LET s == to_str(Unwrap(h.confirm))
         IN  IF s = None THEN FALSE
             ELSE eq_ignore_ascii_case(Unwrap(s), <<"y", "e", "s">>)

(***************************************************************************)
(* Configuration read from the environment at decision time.               *)
(***************************************************************************)
max_actions_cfg ==
    IF env.max_actions = None THEN DefaultMaxActions
    ELSE LET n == parse_uint(Unwrap(env.max_actions))
         IN  IF n = None THEN DefaultMaxActions ELSE Unwrap(n)

window_ms_cfg ==
    IF env.window_ms = None THEN DefaultWindowMs
    ELSE LET n == parse_uint(Unwrap(env.window_ms))
         IN  IF n = None THEN DefaultWindowMs ELSE Unwrap(n)

\* a guard that lets every request pass
require_local_only_open(h) == TRUE

require_local_only(h) ==
    IF env.allow_remote = Some(<<"1">>) THEN TRUE
    ELSE ~h.xff

\* gen_token: "t" followed by the nanoseconds elapsed since an Instant taken
\* on the line before; the measured value is whatever the clock yields.
gen_token(nanos) == "t" \o ToString(nanos)

(***************************************************************************)
(* HandsState methods, as functions of the data behind the mutex.          *)
(***************************************************************************)
HandsInnerDefault ==
    [armed_until |-> None, token |-> None, window_start |-> None,
     window_actions |-> 0, killed |-> FALSE, scope |-> None]

\* a consume_action that forgets the kill switch
is_killed_never(i) == FALSE

is_killed(i) == i.killed

\* a kill that drops the expiry but leaves the token stored
kill_keeps_token(i) ==
    [i EXCEPT !.killed = TRUE, !.armed_until = None,
              !.window_start = None, !.window_actions = 0]

kill(i) ==
    [i EXCEPT !.killed = TRUE, !.armed_until = None, !.token = None,
              !.window_start = None, !.window_actions = 0]

\* a reset that also drops the arming
reset_kill_disarms(i) ==
    [i EXCEPT !.killed = FALSE, !.armed_until = None, !.token = None]

reset_kill(i) == [i EXCEPT !.killed = FALSE]

set_scope(i, scope) == [i EXCEPT !.scope = scope]

get_scope(i) == i.scope

\* an is_armed that never lets the arming expire
is_armed_no_expiry(i, t, token) ==
    /\ i.armed_until # None
    /\ i.token # None
    /\ Unwrap(i.token) = token

\* an is_armed that accepts any token while the arming lasts
is_armed_any_token(i, t, token) ==
    /\ i.armed_until # None
    /\ i.token # None
    /\ t <= Unwrap(i.armed_until)

is_armed(i, t, token) ==
    /\ i.armed_until # None
    /\ i.token # None
    /\ t <= Unwrap(i.armed_until)
    /\ Unwrap(i.token) = token

\* an arm that also starts a new rate window
arm_refreshes_window(i, t, ttl, token) ==
    [i EXCEPT !.armed_until = Some(t + ttl), !.token = Some(token),
              !.window_start = None, !.window_actions = 0]

arm(i, t, ttl, token) ==
    [i EXCEPT !.armed_until = Some(t + ttl), !.token = Some(token)]

\* a disarm that leaves the rate window as it is
disarm_keeps_window(i) == [i EXCEPT !.armed_until = None, !.token = None]

disarm(i) ==
    [i EXCEPT !.armed_until = None, !.token = None,
              !.window_start = None, !.window_actions = 0]

\* Instant::duration_since saturates to zero
duration_since(t, t0) == IF t >= t0 THEN t - t0 ELSE 0

\* consume_action, lines 132-139: the lazy reset of the rate window
window_expired(i, t, window_ms) ==
    IF i.window_start = None THEN TRUE
    ELSE duration_since(t, Unwrap(i.window_start)) > window_ms

\* a reset that restarts the window but keeps the old count
window_reset_keeps_count(i, t, window_ms) ==
    IF window_expired(i, t, window_ms)
    THEN [i EXCEPT !.window_start = Some(t)]
    ELSE i

window_reset(i, t, window_ms) ==
    IF window_expired(i, t, window_ms)
    THEN [i EXCEPT !.window_start = Some(t), !.window_actions = 0]
    ELSE i

\* no limit at all
rate_limited_never(i, max_actions) == FALSE

\* an off-by-one limit
rate_limited_off_by_one(i, max_actions) == i.window_actions > max_actions

\* consume_action, lines 141-146: refuse at the limit, else count the action
rate_limited(i, max_actions) == i.window_actions >= max_actions

\* a success that takes no slot
count_action_free(i) == i

\* a success that takes two slots
count_action_twice(i) == [i EXCEPT !.window_actions = i.window_actions + 2]

count_action(i) == [i EXCEPT !.window_actions = i.window_actions + 1]

(***************************************************************************)
(* ScopeRect, over i32 with saturating arithmetic.                         *)
(***************************************************************************)
I32Max == 2147483647
I32Min == -I32Max - 1

saturating_add(a, b) ==
    IF b > 0 /\ a > I32Max - b THEN I32Max
    ELSE IF b < 0 /\ a < I32Min - b THEN I32Min
    ELSE a + b

saturating_sub(a, b) ==
    IF b > 0 /\ a < I32Min + b THEN I32Min
    ELSE IF b < 0 /\ a > I32Max + b THEN I32Max
    ELSE a - b

\* Ord::clamp asserts min <= max and panics otherwise
clamp_panics(lo, hi) == lo > hi

scope_max_x(r) == saturating_sub(saturating_add(r.x, r.w), 1)
scope_max_y(r) == saturating_sub(saturating_add(r.y, r.h), 1)

clamp_point_panics(r) ==
    clamp_panics(r.x, scope_max_x(r)) \/ clamp_panics(r.y, scope_max_y(r))

clamp_point(r, x, y) ==
    <<clamp(x, r.x, scope_max_x(r)), clamp(y, r.y, scope_max_y(r))>>

contains(r, x, y) ==
    /\ x >= r.x
    /\ y >= r.y
    /\ x < saturating_add(r.x, r.w)
    /\ y < saturating_add(r.y, r.h)

(***************************************************************************)
(* ContentGuard.                                                           *)
(***************************************************************************)
TextMax == 200

SensitiveKeys ==
    { <<"p","a","s","s","w","o","r","d">>, <<"c","o","n","t","r","a","s","e">>,
      <<"o","t","p">>, <<"2","f","a">>, <<"m","f","a">>,
      <<"c","a","p","t","c","h","a">>,
      <<"v","e","r","i","f","i","c","a","t","i","o","n"," ","c","o","d","e">>,
      <<"c","\t","d","i","g","o">> }

to_lowercase(text) == [k \in 1..Len(text) |-> to_ascii_lowercase(text[k])]

str_contains(t, k) ==
    \E i \in 0..(Len(t) - Len(k)) : SubSeq(t, i + 1, i + Len(k)) = k

reject_sensitive_text(text) ==
    LET t == to_lowercase(text)
    IN  \E k \in SensitiveKeys : str_contains(t, k)

(***************************************************************************)
(* Requests and responses.                                                 *)
(***************************************************************************)
ConfirmInputs ==
    { None, Some(<<"Y","e","S">>), Some(<<"n","o">>), Some(<<"y","e","s",NonAscii>>) }

Headers == [xff : BOOLEAN, confirm : ConfirmInputs]

\* requests to handlers that look at no header but x-forwarded-for
PlainHeaders == [xff : BOOLEAN, confirm : {None}]

\* the headers of a request that has passed require_local_only
LocalHeaders == {h \in Headers : ~h.xff}

\* the confirmation gate, evaluated once per combination of headers
Confirmed == [h \in Headers |-> confirm_header(h)]

ReqTokens == {gen_token(n) : n \in ElapsedNanos}

NoReq == ""

\* what a step returned: the handler's response (op, status, error, and the
\* token/ttl of an arm response), the result of a consume_action call that
\* returned in this step, and the call made to the input injector, if any;
\* for disarm, kill, reset and the rate window also what the step found
\* behind the mutex
NoFound == [killed |-> FALSE, armed |-> FALSE, actions |-> 0]

NoResp ==
    [op |-> "none", status |-> 0, error |-> "", token |-> None, ttl |-> 0,
     consume |-> "", inject |-> None, found |-> NoFound]

Found(i) ==
    [killed |-> i.killed, armed |-> i.token # None, actions |-> i.window_actions]

Resp(op, status, error) == [NoResp EXCEPT !.op = op, !.status = status, !.error = error]

Proxied(op) == Resp(op, StatusForbidden, "proxied requests not allowed")

MissingConfirm(op) == Resp(op, StatusPreconditionRequired, "missing x-seealln-confirm: yes")

(***************************************************************************)
(* The initial state: HandsState::new(), the clock at its origin, and an   *)
(* environment that stays fixed while the process runs.                    *)
(***************************************************************************)
EnvInputs ==
    { [max_actions |-> Some(<<ToString(MaxActionsInput)>>),
       window_ms |-> Some(<<"1","1","0","0">>),
       allow_remote |-> None, hands |-> TRUE],
      [max_actions |-> Some(<<"0">>), window_ms |-> Some(<<"1","1","0","0">>),
       allow_remote |-> Some(<<"t","r","u","e">>), hands |-> TRUE],
      [max_actions |-> None, window_ms |-> Some(<<"x">>),
       allow_remote |-> Some(<<"1">>), hands |-> FALSE] }

\* nothing has reached the rate window yet: the real times of the calls that
\* succeeded in the current window, how many calls reached the current
\* window (counted up to MaxRaceCalls), and the real times of the latest
\* successes, MaxActionsInput + 1 at most
NoHist == [win |-> <<>>, calls |-> 0, recent |-> <<>>]

\* no direct call of clamp_point is under way
NoCall ==
    [rect |-> [x |-> 0, y |-> 0, w |-> 0, h |-> 0], x |-> 0, y |-> 0,
     done |-> FALSE, panicked |-> FALSE, result |-> <<>>]

Init ==
    /\ inner = HandsInnerDefault
    /\ now = 0
    /\ env \in EnvInputs
    /\ pc = [p \in Procs |-> "ready"]
    /\ req = [p \in Procs |-> NoReq]
    /\ last = NoResp
    /\ call = NoCall
    /\ tnow = [p \in Procs |-> None]
    /\ hist = NoHist

\* The monotonic clock advances.
Tick ==
    /\ last = NoResp
    /\ \E t \in Instants : t > now /\ now' = t
    /\ last' = NoResp
    /\ UNCHANGED <<inner, env, call, tnow, hist, pc, req>>

(***************************************************************************)
(* Control handlers.  Each takes the mutex once, so each is one step.      *)
(***************************************************************************)
hands_arm(h, ttl_ms, nanos) ==
    /\ last = NoResp
    /\ IF ~require_local_only(h)
       THEN /\ last' = Proxied("arm")
            /\ inner' = inner
       ELSE LET ttl == clamp(IF ttl_ms = None THEN DefaultTtlMs ELSE Unwrap(ttl_ms),
                             MinTtlMs, MaxTtlMs)
                token == gen_token(nanos)
            IN  /\ inner' = arm(inner, now, ttl, token)
                /\ last' = [Resp("arm", StatusOk, "") EXCEPT
                               !.token = Some(token), !.ttl = ttl]
    /\ UNCHANGED <<now, env, call, tnow, hist, pc, req>>

hands_disarm(h) ==
    /\ last = NoResp
    /\ IF ~require_local_only(h)
       THEN /\ last' = Proxied("disarm")
            /\ inner' = inner
       ELSE /\ inner' = disarm(inner)
            /\ last' = [Resp("disarm", StatusOk, "") EXCEPT !.found = Found(inner)]
    /\ UNCHANGED <<now, env, call, tnow, hist, pc, req>>

safety_kill(h) ==
    /\ last = NoResp
    /\ IF ~require_local_only(h)
       THEN /\ last' = Proxied("kill")
            /\ inner' = inner
       ELSE /\ inner' = kill(inner)
            /\ last' = [Resp("kill", StatusOk, "") EXCEPT !.found = Found(inner)]
    /\ UNCHANGED <<now, env, call, tnow, hist, pc, req>>

safety_reset(h) ==
    /\ last = NoResp
    /\ IF ~require_local_only(h)
       THEN /\ last' = Proxied("reset")
            /\ inner' = inner
       ELSE IF ~Confirmed[h]
       THEN /\ last' = MissingConfirm("reset")
            /\ inner' = inner
       ELSE /\ inner' = reset_kill(inner)
            /\ last' = [Resp("reset", StatusOk, "") EXCEPT !.found = Found(inner)]
    /\ UNCHANGED <<now, env, call, tnow, hist, pc, req>>

safety_status(h) ==
    /\ last = NoResp
    /\ IF ~require_local_only(h)
       THEN last' = Proxied("status")
       ELSE last' = Resp("status", StatusOk, "")
    /\ UNCHANGED <<inner, now, env, call, tnow, hist, pc, req>>

ScopeInputs ==
    { None,
      Some([x |-> 100, y |-> 100, w |-> 10, h |-> 10]),
      Some([x |-> I32Max, y |-> 0, w |-> 1, h |-> 1]),
      Some([x |-> 0, y |-> 0, w |-> 0, h |-> 5]),
      Some([x |-> 0, y |-> 0, w |-> 5, h |-> -1]) }

\* a validation that looks at the width only
scope_invalid_width_only(s) == s.w <= 0

\* scope_set, line 256: the rectangle is refused
scope_invalid(s) == s.w <= 0 \/ s.h <= 0

scope_set(h, scope) ==
    /\ last = NoResp
    /\ IF ~require_local_only(h)
       THEN /\ last' = Proxied("scope_set")
            /\ inner' = inner
       ELSE IF scope # None /\ scope_invalid(Unwrap(scope))
       THEN /\ last' = Resp("scope_set", StatusBadRequest, "invalid scope")
            /\ inner' = inner
       ELSE /\ inner' = set_scope(inner, scope)
            /\ last' = Resp("scope_set", StatusOk, "")
    /\ UNCHANGED <<now, env, call, tnow, hist, pc, req>>

(***************************************************************************)
(* Action handlers: hands_move, hands_click, hands_type.  Each checks the  *)
(* origin and calls consume_action, which takes the mutex in is_killed,    *)
(* again in is_armed and a third time for the rate window.  Up to the      *)
(* return of consume_action the three handlers run the same code and give  *)
(* the same responses; what differs is what they do afterwards.            *)
(***************************************************************************)
Finish(p) ==
    /\ pc' = [pc EXCEPT ![p] = "ready"]
    /\ req' = [req EXCEPT ![p] = NoReq]

ConsumeErr(token, msg) ==
    [Resp("action", StatusForbidden, msg) EXCEPT
        !.consume = msg, !.token = Some(token)]

ConsumeOk(token) ==
    [NoResp EXCEPT !.op = "consume", !.consume = "ok", !.token = Some(token)]

\* require_local_only, then consume_action up to is_killed() (line 113)
Begin(p, h, token) ==
    /\ last = NoResp
    /\ pc[p] = "ready"
    /\ IF ~require_local_only(h)
       THEN /\ last' = Proxied("action")
            /\ UNCHANGED <<pc, req>>
       ELSE IF is_killed(inner)
       THEN /\ last' = ConsumeErr(token, "killed")
            /\ UNCHANGED <<pc, req>>
       ELSE /\ pc' = [pc EXCEPT ![p] = "is_armed"]
            /\ req' = [req EXCEPT ![p] = token]
            /\ last' = NoResp
    /\ UNCHANGED <<inner, now, env, call, tnow, hist>>

\* is_armed (lines 88-95) and the NotArmed return of consume_action
IsArmed(p) ==
    /\ last = NoResp
    /\ pc[p] = "is_armed"
    /\ IF ~is_armed(inner, now, req[p])
       THEN /\ last' = ConsumeErr(req[p], "not armed")
            /\ Finish(p)
       ELSE /\ pc' = [pc EXCEPT ![p] = "rate"]
            /\ last' = NoResp
            /\ UNCHANGED req
    /\ UNCHANGED <<inner, now, env, call, tnow, hist>>

\* consume_action, lines 120-146: the configuration and the clock are read,
\* then the rate window is updated under the mutex
RateAt(p, t) ==
    /\ last = NoResp
    /\ pc[p] = "rate"
    /\ LET i1 == window_reset(inner, t, window_ms_cfg)
       IN  IF rate_limited(i1, max_actions_cfg)
           THEN /\ inner' = i1
                /\ last' = [ConsumeErr(req[p], "rate limited") EXCEPT
                               !.found = Found(inner)]
                /\ Finish(p)
           ELSE /\ inner' = count_action(i1)
                /\ pc' = [pc EXCEPT ![p] = "policy"]
                /\ last' = [ConsumeOk(req[p]) EXCEPT !.found = Found(inner)]
                /\ UNCHANGED req
    /\ UNCHANGED <<now, env, call>>

\* the clock is read in the step that takes the lock
Rate(p) == RateAt(p, now) /\ UNCHANGED <<tnow, hist>>

(***************************************************************************)
(* What each handler does once consume_action has returned Ok.             *)
(***************************************************************************)
InjectorResults == {"ok", "err"}

Injected(op, res, what) ==
    [Resp(op, IF res = "ok" THEN StatusOk ELSE StatusInternalError,
              IF res = "ok" THEN "" ELSE "injector error")
        EXCEPT !.inject = Some(what)]

Disabled(op) == Resp(op, StatusNotImplemented, "hands feature disabled")

XInputs == {-20000, 200}
YInputs == {5}
DisplayInputs == {None, Some(<<1920, 1080>>)}
CoordLimit == 10000

\* hands_move, lines 339-370
move_response(x0, y0, display, scope, res) ==
    IF ~env.hands THEN Disabled("move")
    ELSE
    LET x1 == clamp(x0, -CoordLimit, CoordLimit)
        y1 == clamp(y0, -CoordLimit, CoordLimit)
        dmaxx == IF display = None THEN 0 ELSE saturating_sub(Unwrap(display)[1], 1)
        dmaxy == IF display = None THEN 0 ELSE saturating_sub(Unwrap(display)[2], 1)
        x2 == IF display = None THEN x1 ELSE clamp(x1, 0, dmaxx)
        y2 == IF display = None THEN y1 ELSE clamp(y1, 0, dmaxy)
        pt == IF scope = None THEN <<x2, y2>> ELSE clamp_point(Unwrap(scope), x2, y2)
    IN  IF display # None /\ (clamp_panics(0, dmaxx) \/ clamp_panics(0, dmaxy))
        THEN Resp("move", 0, "panic")
        ELSE IF scope # None /\ clamp_point_panics(Unwrap(scope))
        THEN Resp("move", 0, "panic")
        ELSE Injected("move", res, [x |-> pt[1], y |-> pt[2]])

ButtonInputs == {None, Some("drag")}

\* enigo_click, lines 298-308
click_result(button, res) ==
    IF res = "ok" /\ button # None /\ Unwrap(button) \notin {"left", "right", "middle"}
    THEN "err" ELSE res

\* hands_click, lines 386-408
click_response(h, button, res) ==
    IF ~Confirmed[h] THEN MissingConfirm("click")
    ELSE IF ~env.hands THEN Disabled("click")
    ELSE Injected("click", click_result(button, res), [button |-> button])

LongText(n) == [k \in 1..n |-> "a"]

\* the texts of the type requests, each under a short name; a request is
\* identified by the name of its text
Texts ==
    [hi |-> <<"h","i">>,
     otp |-> <<"O","T","P">>,
     max |-> LongText(TextMax),
     over |-> LongText(TextMax + 1),
     over_otp |-> LongText(TextMax - 2) \o <<"o","t","p">>]

TextInputs == DOMAIN Texts

\* the two guardrails on the text, evaluated once per input text
TextTooLong == [t \in TextInputs |-> Len(Texts[t]) > TextMax]
TextSensitive == [t \in TextInputs |-> reject_sensitive_text(Texts[t])]

\* a hands_type without the ContentGuard
type_response_no_guard(h, text, res) ==
    IF ~Confirmed[h] THEN MissingConfirm("type")
    ELSE IF TextTooLong[text]
    THEN Resp("type", StatusBadRequest, "text too long (max 200)")
    ELSE IF ~env.hands THEN Disabled("type")
    ELSE Injected("type", res, [text |-> text])

\* a hands_type that runs the ContentGuard before the length limit
type_response_guard_first(h, text, res) ==
    IF ~Confirmed[h] THEN MissingConfirm("type")
    ELSE IF TextSensitive[text]
    THEN Resp("type", StatusForbidden, "looks like login/MFA/CAPTCHA; refusing")
    ELSE IF TextTooLong[text]
    THEN Resp("type", StatusBadRequest, "text too long (max 200)")
    ELSE IF ~env.hands THEN Disabled("type")
    ELSE Injected("type", res, [text |-> text])

\* hands_type, lines 424-464
type_response(h, text, res) ==
    IF ~Confirmed[h] THEN MissingConfirm("type")
    ELSE IF TextTooLong[text]
    THEN Resp("type", StatusBadRequest, "text too long (max 200)")
    ELSE IF TextSensitive[text]
    THEN Resp("type", StatusForbidden, "looks like login/MFA/CAPTCHA; refusing")
    ELSE IF ~env.hands THEN Disabled("type")
    ELSE Injected("type", res, [text |-> text])

Move(p, x, y, display, res) ==
    /\ last = NoResp
    /\ pc[p] = "policy"
    /\ last' = move_response(x, y, display, get_scope(inner), res)
    /\ Finish(p)
    /\ UNCHANGED <<inner, now, env, call, tnow, hist>>

Click(p, h, button, res) ==
    /\ last = NoResp
    /\ pc[p] = "policy"
    /\ last' = click_response(h, button, res)
    /\ Finish(p)
    /\ UNCHANGED <<inner, now, env, call, tnow, hist>>

Type(p, h, text, res) ==
    /\ last = NoResp
    /\ pc[p] = "policy"
    /\ last' = type_response(h, text, res)
    /\ Finish(p)
    /\ UNCHANGED <<inner, now, env, call, tnow, hist>>

\* The response (or the value consume_action returned) reaches its receiver;
\* the next step is taken after that.
Deliver ==
    /\ last # NoResp
    /\ last' = NoResp
    /\ UNCHANGED <<inner, now, env, call, tnow, hist, pc, req>>

(***************************************************************************)
(* The next-state relation.                                                *)
(***************************************************************************)
Arm == \E h \in PlainHeaders, t \in TtlParams, n \in ElapsedNanos : hands_arm(h, t, n)
Disarm == \E h \in PlainHeaders : hands_disarm(h)
Kill == \E h \in PlainHeaders : safety_kill(h)
Reset == \E h \in Headers : safety_reset(h)
Status == \E h \in PlainHeaders : safety_status(h)
ScopeSet == \E h \in PlainHeaders, sc \in ScopeInputs : scope_set(h, sc)
BeginAction == \E p \in Serving, h \in PlainHeaders, t \in ReqTokens : Begin(p, h, t)
IsArmedStep == \E p \in Serving : IsArmed(p)
RateStep == \E p \in Serving : Rate(p)
MoveStep ==
    \E p \in Serving, x \in XInputs, y \in YInputs, d \in DisplayInputs,
       r \in InjectorResults : Move(p, x, y, d, r)
ClickStep ==
    \E p \in Serving, h \in LocalHeaders, b \in ButtonInputs, r \in InjectorResults :
       Click(p, h, b, r)
TypeStep ==
    \E p \in Serving, h \in LocalHeaders, t \in TextInputs, r \in InjectorResults :
       Type(p, h, t, r)

Next ==
    \/ Tick
    \/ Arm
    \/ Disarm
    \/ Kill
    \/ Reset
    \/ Status
    \/ ScopeSet
    \/ BeginAction
    \/ IsArmedStep
    \/ RateStep
    \/ MoveStep
    \/ ClickStep
    \/ TypeStep
    \/ Deliver

Spec == Init /\ [][Next]_vars

(***************************************************************************)
(* Two action handlers racing on consume_action, with arm, disarm, kill    *)
(* and reset between their steps, under a fixed SEEALLN_HANDS_MAX_ACTIONS. *)
(* Here the Instant::now() of line 129 is a step of its own: a handler may *)
(* take the lock of line 130 after the clock has moved on and after other  *)
(* requests have used the window.  hist records what reached the window.   *)
(***************************************************************************)
InitRace ==
    /\ inner = HandsInnerDefault
    /\ now = 0
    /\ env = [max_actions |-> Some(<<ToString(MaxActionsInput)>>),
              window_ms |-> Some(<<"1","1","0","0">>),
              allow_remote |-> None, hands |-> TRUE]
    /\ pc = [p \in Procs |-> "ready"]
    /\ req = [p \in Procs |-> NoReq]
    /\ last = NoResp
    /\ call = NoCall
    /\ tnow = [p \in Procs |-> None]
    /\ hist = NoHist

\* the last n elements of a sequence
LastN(s, n) == IF Len(s) <= n THEN s ELSE SubSeq(s, Len(s) - n + 1, Len(s))

\* line 129: let now = Instant::now()
ReadClock(p) ==
    /\ last = NoResp
    /\ pc[p] = "rate"
    /\ tnow[p] = None
    /\ tnow' = [tnow EXCEPT ![p] = Some(now)]
    /\ UNCHANGED <<inner, now, env, pc, req, last, call, hist>>

\* lines 130-146 with the clock value read before; the history notes a
\* restart of the window, the call, and the real time of a success
LockedRate(p) ==
    /\ tnow[p] # None
    /\ RateAt(p, Unwrap(tnow[p]))
    /\ tnow' = [tnow EXCEPT ![p] = None]
    /\ LET base == IF inner'.window_start # inner.window_start
                   THEN [hist EXCEPT !.win = <<>>, !.calls = 0]
                   ELSE hist
           n == IF base.calls < MaxRaceCalls THEN base.calls + 1 ELSE base.calls
       IN  hist' = IF last'.consume = "ok"
                   THEN [win |-> Append(base.win, now), calls |-> n,
                         recent |-> LastN(Append(base.recent, now),
                                          max_actions_cfg + 1)]
                   ELSE [base EXCEPT !.calls = n]

\* the requests of the race come from the local host, carry the token that
\* arm returns and, for the reset, the confirmation
RaceHeaders == [xff |-> FALSE, confirm |-> None]
RaceConfirmHeaders == [xff |-> FALSE, confirm |-> Some(<<"Y","e","S">>)]
RaceNanos == 40

RaceArm == hands_arm(RaceHeaders, Some(1000), RaceNanos)
RaceDisarm == hands_disarm(RaceHeaders)
RaceKill == safety_kill(RaceHeaders)
RaceReset == safety_reset(RaceConfirmHeaders)
RaceBegin == \E p \in Procs : Begin(p, RaceHeaders, gen_token(RaceNanos))
RaceIsArmed == \E p \in Procs : IsArmed(p)
RaceReadClock == \E p \in Procs : ReadClock(p)
RaceRate == \E p \in Procs : LockedRate(p)
RaceMove == \E p \in Procs, r \in InjectorResults : Move(p, 200, 5, None, r)

NextRace ==
    \/ Tick
    \/ RaceArm
    \/ RaceDisarm
    \/ RaceKill
    \/ RaceReset
    \/ RaceBegin
    \/ RaceIsArmed
    \/ RaceReadClock
    \/ RaceRate
    \/ RaceMove
    \/ Deliver

SpecRace == InitRace /\ [][NextRace]_vars

(***************************************************************************)
(* ScopeRect::clamp_point called directly on a rectangle with w > 0 and    *)
(* h > 0 and a point, both drawn from 32-bit values including the extremes.*)
(***************************************************************************)
RectInputs ==
    { [x |-> 100, y |-> 100, w |-> 10, h |-> 10],
      [x |-> -5, y |-> -5, w |-> 1, h |-> 1],
      [x |-> 0, y |-> 0, w |-> I32Max, h |-> I32Max],
      [x |-> I32Max - 5, y |-> I32Min, w |-> 10, h |-> I32Max],
      [x |-> I32Max, y |-> 0, w |-> 1, h |-> 1] }

CoordInputs == {I32Min, -5, 5, 100, 105, 109, 110, 200, I32Max}

InitClamp ==
    /\ inner = HandsInnerDefault
    /\ now = 0
    /\ env = [max_actions |-> None, window_ms |-> None, allow_remote |-> None,
              hands |-> TRUE]
    /\ pc = [p \in Procs |-> "ready"]
    /\ req = [p \in Procs |-> NoReq]
    /\ last = NoResp
    /\ tnow = [p \in Procs |-> None]
    /\ hist = NoHist
    /\ \E r \in RectInputs, x \in CoordInputs, y \in CoordInputs :
          call = [NoCall EXCEPT !.rect = r, !.x = x, !.y = y]

\* the call returns the clamped point, or panics in Ord::clamp
ClampPointCall ==
    /\ ~call.done
    /\ call' = [call EXCEPT
                   !.done = TRUE,
                   !.panicked = clamp_point_panics(call.rect),
                   !.result = IF clamp_point_panics(call.rect) THEN <<>>
                              ELSE clamp_point(call.rect, call.x, call.y)]
    /\ UNCHANGED <<inner, now, env, pc, req, last, tnow, hist>>

NextClamp == ClampPointCall

SpecClamp == InitClamp /\ [][NextClamp]_vars

(***************************************************************************)
(* Properties.                                                             *)
(***************************************************************************)
Armed(token) ==
    /\ inner.token = Some(token)
    /\ inner.armed_until # None
    /\ now <= Unwrap(inner.armed_until)

InWindow ==
    /\ inner.window_start # None
    /\ now - Unwrap(inner.window_start) <= window_ms_cfg

\* C1: a consume_action invoked while killed is true fails with Killed and
\* ends the request there, whatever the arming state and the token, also
\* when arm() has been called while killed.
C1_KilledBlocksConsume ==
    [][\A p \in Procs, h \in PlainHeaders, t \in ReqTokens :
          (inner.killed /\ require_local_only(h) /\ Begin(p, h, t))
             => /\ last'.consume = "killed"
                /\ last'.status = StatusForbidden
                /\ last'.token = Some(t)
                /\ pc'[p] = "ready"
                /\ inner' = inner]_vars

\* consume_action has just failed with Killed although the token it was given
\* is the armed one (arm() was called after the kill) and has not expired
C1_Witness ==
    /\ last.consume = "killed"
    /\ inner.killed
    /\ last.token # None
    /\ Armed(Unwrap(last.token))

\* C2: no consume_action call returns success at a moment when killed is true.
C2_NoSuccessWhileKilled == last.consume = "ok" => ~inner.killed

\* C3: inside one rate window consume_action succeeds while fewer than
\* max_actions actions are counted, each success counting exactly one; at
\* max_actions it fails with RateLimited and leaves the counter as it is.
\* The counter never exceeds max_actions and only a success raises it.
C3_RateLimitPerWindow ==
    [][/\ inner'.window_actions <= max_actions_cfg
       /\ (inner'.window_actions > inner.window_actions) => last'.consume = "ok"
       /\ \A p \in Procs :
             (Rate(p) /\ InWindow)
                => IF inner.window_actions < max_actions_cfg
                   THEN /\ last'.consume = "ok"
                        /\ inner'.window_actions = inner.window_actions + 1
                        /\ inner'.window_start = inner.window_start
                   ELSE /\ last'.consume = "rate limited"
                        /\ last'.status = StatusForbidden
                        /\ inner' = inner]_vars

\* with the default limit of 20: the window is full and the call that found
\* it full, made with the armed token inside the ttl, was refused
C3_Witness ==
    /\ last.consume = "rate limited"
    /\ env.max_actions = None
    /\ inner.window_actions = DefaultMaxActions
    /\ ~inner.killed
    /\ last.token # None
    /\ Armed(Unwrap(last.token))
    /\ InWindow

Expired == inner.armed_until # None /\ now > Unwrap(inner.armed_until)

WindowElapsed ==
    /\ inner.window_start # None
    /\ now - Unwrap(inner.window_start) > window_ms_cfg

\* C4 as stated: the first consume_action that finds more than window_ms
\* elapsed since rate_window_start succeeds, restarts the window at the
\* current time and leaves the count at 1.
C4_AfterWindowSucceeds ==
    [][\A p \in Procs :
          (Rate(p) /\ WindowElapsed)
             => /\ last'.consume = "ok"
                /\ inner'.window_start = Some(now)
                /\ inner'.window_actions = 1]_vars

\* C4 amended: that holds when max_actions is at least 1; and the window
\* changes in no step but a rate check, a disarm or a kill: the clock
\* advancing changes nothing.
C4_AfterWindowSucceedsIfLimitPositive ==
    [][/\ \A p \in Procs :
             (Rate(p) /\ WindowElapsed /\ max_actions_cfg >= 1)
                => /\ last'.consume = "ok"
                   /\ inner'.window_start = Some(now)
                   /\ inner'.window_actions = 1
       /\ (now' # now) => inner' = inner
       /\ (inner'.window_start # inner.window_start)
             => \/ last'.consume \in {"ok", "rate limited"}
                \/ last'.op \in {"disarm", "kill"}]_vars

\* a call that found the window full and elapsed has succeeded and restarted
\* the window at the current time with a count of 1
C4_Witness ==
    /\ last.consume = "ok"
    /\ max_actions_cfg >= 1
    /\ last.found.actions = max_actions_cfg
    /\ inner.window_start = Some(now)
    /\ inner.window_actions = 1

\* C5: past armed_until is_armed is false for every token, a consume_action
\* that gets to the arming check fails with NotArmed, and nothing stored
\* changes: neither by the clock advancing nor by the failed call.
C5_ExpiryDisarms ==
    [][/\ Expired => \A t \in ReqTokens : ~is_armed(inner, now, t)
       /\ \A p \in Procs :
             (IsArmed(p) /\ Expired)
                => /\ last'.consume = "not armed"
                   /\ last'.status = StatusForbidden
                   /\ pc'[p] = "ready"
                   /\ inner' = inner
       /\ (now' # now) => inner' = inner]_vars

\* a consume_action with the stored token has failed with NotArmed because
\* the arming has expired; the stored token and expiry are still there
C5_Witness ==
    /\ last.consume = "not armed"
    /\ ~inner.killed
    /\ last.token = inner.token
    /\ Expired

\* C6 as stated: is_armed(token) is true iff now <= armed_until and the token
\* is the stored one, and it is false whenever killed is true.
C6_IsArmedFalseWhenKilled ==
    \A t \in ReqTokens :
       /\ is_armed(inner, now, t) <=> Armed(t)
       /\ inner.killed => ~is_armed(inner, now, t)

\* C6 amended: is_armed(token) is true iff now <= armed_until and the token is
\* the stored one, false otherwise, also when nothing is armed; it does not
\* look at killed: it is false right after kill(), which clears the arming.
C6_IsArmedIffLiveToken ==
    [][/\ \A t \in ReqTokens : is_armed(inner, now, t) <=> Armed(t)
       /\ \A p \in Procs : IsArmed(p) => (pc'[p] = "rate" <=> Armed(req[p]))
       /\ (last'.op = "kill" /\ last'.status = StatusOk)
             => \A t \in ReqTokens : ~is_armed(inner', now', t)]_vars

\* is_armed has returned true for a request while killed is true
C6_Witness ==
    /\ pc["h1"] = "rate"
    /\ inner.killed
    /\ Armed(req["h1"])

\* C7: after a re-arm the token of the previous arm is no longer armed.
C7_RearmInvalidatesOldToken ==
    [][(last'.op = "arm" /\ last'.status = StatusOk /\ inner.token # None)
          => ~is_armed(inner', now', Unwrap(inner.token))]_vars

Cleared(i) ==
    /\ i.armed_until = None
    /\ i.token = None
    /\ i.window_start = None
    /\ i.window_actions = 0

\* C8: disarm() leaves arming and rate window empty whatever it found (and
\* killed and scope as they were); while no token is stored a consume_action
\* that gets to the arming check fails with NotArmed; and only arm() stores
\* a token.
C8_DisarmClears ==
    [][/\ \A h \in PlainHeaders :
             (last'.op = "disarm" /\ require_local_only(h) /\ hands_disarm(h))
                => /\ last'.status = StatusOk
                   /\ Cleared(inner')
                   /\ inner'.killed = inner.killed
                   /\ inner'.scope = inner.scope
       /\ \A p \in Procs :
             (IsArmed(p) /\ inner.token = None)
                => /\ last'.consume = "not armed"
                   /\ pc'[p] = "ready"
                   /\ inner' = inner
       /\ (inner.token = None /\ inner'.token # None) => last'.op = "arm"]_vars

\* disarm() has returned after finding a token armed and actions counted
C8_Witness ==
    /\ last.op = "disarm"
    /\ last.status = StatusOk
    /\ last.found.armed
    /\ last.found.actions > 0
    /\ Cleared(inner)

\* C9 as stated: in the state reset_kill() reaches from Killed no token is armed.
C9_ResetFromKilledIsDisarmed ==
    (last.op = "reset" /\ last.status = StatusOk /\ last.found.killed)
       => inner.token = None

\* C9 amended: reset_kill() clears killed and nothing else.  kill() leaves no
\* token, and while killed only arm() stores one; so the state reached from
\* Killed has no token armed, and consume_action fails with NotArmed, unless
\* arm() was called while killed.
C9_ResetClearsKilledOnly ==
    [][/\ \A h \in Headers :
             (last'.op = "reset" /\ last'.status = StatusOk /\ safety_reset(h))
                => inner' = [inner EXCEPT !.killed = FALSE]
       /\ (last'.op = "kill" /\ last'.status = StatusOk)
             => (inner'.killed /\ inner'.token = None /\ inner'.armed_until = None)
       /\ (inner.killed /\ inner.token = None /\ inner'.token # None)
             => last'.op = "arm"
       /\ \A p \in Procs :
             (IsArmed(p) /\ inner.token = None) => last'.consume = "not armed"]_vars

\* reset_kill() has cleared killed and the token armed while killed is there
C9_Witness ==
    /\ last.op = "reset"
    /\ last.status = StatusOk
    /\ last.found.killed
    /\ last.found.armed
    /\ ~inner.killed
    /\ inner.token # None

ConfirmYes(h) == h.confirm \in {Some(<<"y","e","s">>), Some(<<"Y","e","S">>)}

\* C10: a reset request without x-seealln-confirm: yes (that passed the
\* origin check) gets the precondition-required status and changes nothing;
\* killed is cleared only by a reset request that carries the confirmation.
C10_ResetNeedsConfirm ==
    [][/\ \A h \in Headers :
             (last'.op = "reset" /\ require_local_only(h) /\ ~ConfirmYes(h)
                 /\ safety_reset(h))
                => /\ last'.status = StatusPreconditionRequired
                   /\ inner' = inner
       /\ (inner.killed /\ ~inner'.killed)
             => /\ last'.op = "reset"
                /\ last'.status = StatusOk
                /\ \E h \in Headers : ConfirmYes(h) /\ safety_reset(h)]_vars

\* a reset without the confirmation has been refused and killed is still true
C10_Witness ==
    /\ last.op = "reset"
    /\ last.status = StatusPreconditionRequired
    /\ inner.killed

\* C11: a scope_set request (that passed the origin check) with a rectangle
\* whose w <= 0 or h <= 0 gets the bad-request status and leaves the stored
\* scope, and everything else, as it was; so a stored scope is always absent
\* or has w > 0 and h > 0.
C11_InvalidScopeRejected ==
    [][/\ \A h \in PlainHeaders, sc \in ScopeInputs :
             (last'.op = "scope_set" /\ require_local_only(h) /\ sc # None
                 /\ (Unwrap(sc).w <= 0 \/ Unwrap(sc).h <= 0) /\ scope_set(h, sc))
                => /\ last'.status = StatusBadRequest
                   /\ inner' = inner
       /\ inner'.scope # None
             => (Unwrap(inner'.scope).w > 0 /\ Unwrap(inner'.scope).h > 0)]_vars

\* an invalid rectangle has been refused while a scope was stored, and that
\* scope is still there
C11_Witness ==
    /\ last.op = "scope_set"
    /\ last.status = StatusBadRequest
    /\ inner.scope = Some([x |-> 100, y |-> 100, w |-> 10, h |-> 10])

\* v lies in [lo, lo + w - 1], computed without leaving the 32-bit range
InClosedRange(v, lo, w) ==
    /\ v >= lo
    /\ IF lo >= 0 THEN v - lo <= w - 1 ELSE v <= lo + (w - 1)

\* C12: for every rectangle with w > 0 and h > 0 and every point, clamp_point
\* returns a point in [x, x+w-1] x [y, y+h-1] ({100,100,10,10} maps (200,5) to
\* (109,100)); the returned point satisfies contains, and a point that
\* satisfies contains is returned unchanged.
C12_ClampPointInRect ==
    (call.done /\ call.rect.w > 0 /\ call.rect.h > 0)
       => /\ ~call.panicked
          /\ InClosedRange(call.result[1], call.rect.x, call.rect.w)
          /\ InClosedRange(call.result[2], call.rect.y, call.rect.h)
          /\ contains(call.rect, call.result[1], call.result[2])
          /\ contains(call.rect, call.x, call.y) => call.result = <<call.x, call.y>>
          /\ (call.rect = [x |-> 100, y |-> 100, w |-> 10, h |-> 10]
                 /\ call.x = 200 /\ call.y = 5) => call.result = <<109, 100>>

\* C13: the injector is called for a request only when, in that request, the
\* origin guard passed (the request got past its first step), consume_action
\* returned success (the request got to its policy step), and for click and
\* type the confirmation was given, and for type the text was at most 200
\* long and matched no key of the block list.
C13_InjectorOnlyOnApproval ==
    [][/\ \A p \in Procs :
             (pc[p] = "ready" /\ pc'[p] # "ready")
                => \A h \in PlainHeaders, t \in ReqTokens :
                      Begin(p, h, t) => (require_local_only(h) /\ ~inner.killed)
       /\ \A p \in Procs :
             (pc'[p] = "policy" /\ pc[p] # "policy")
                => (pc[p] = "rate" /\ last'.consume = "ok")
       /\ \A p \in Procs :
             (pc'[p] = "rate" /\ pc[p] # "rate")
                => (pc[p] = "is_armed" /\ Armed(req[p]))
       /\ last'.inject # None
             => \E p \in Procs : pc[p] = "policy" /\ pc'[p] = "ready"
       /\ (last'.op = "click" /\ last'.inject # None)
             => \A p \in Procs, h \in LocalHeaders, b \in ButtonInputs,
                   r \in InjectorResults :
                   Click(p, h, b, r) => ConfirmYes(h)
       /\ (last'.op = "type" /\ last'.inject # None)
             => \A p \in Procs, h \in LocalHeaders, t \in TextInputs,
                   r \in InjectorResults :
                   Type(p, h, t, r)
                      => /\ ConfirmYes(h)
                         /\ Len(Texts[t]) <= TextMax
                         /\ ~reject_sensitive_text(Texts[t])]_vars

\* the injector has typed a text of the maximal length
C13_Witness ==
    /\ last.op = "type"
    /\ last.status = StatusOk
    /\ last.inject = Some([text |-> "max"])
    /\ Len(Texts["max"]) = TextMax

RemoteAllowed == env.allow_remote = Some(<<"1">>)

\* the step answered with the proxied-request refusal and changed nothing
RefusedAsProxied(op) ==
    /\ last' = Proxied(op)
    /\ inner' = inner
    /\ pc' = pc
    /\ req' = req

\* C14: unless SEEALLN_ALLOW_REMOTE is 1, a request with x-forwarded-for is
\* answered 403 "proxied requests not allowed" by every handler, whatever
\* else the request carries and whatever the state, and nothing changes;
\* when it is 1 the guard passes for every request.
C14_ProxiedRefusedFirst ==
    [][/\ (~RemoteAllowed /\ last'.op = "arm")
             => \A h \in Headers, t \in TtlParams, n \in ElapsedNanos :
                   (h.xff /\ hands_arm(h, t, n)) => RefusedAsProxied("arm")
       /\ (~RemoteAllowed /\ last'.op = "disarm")
             => \A h \in Headers :
                   (h.xff /\ hands_disarm(h)) => RefusedAsProxied("disarm")
       /\ (~RemoteAllowed /\ last'.op = "kill")
             => \A h \in Headers :
                   (h.xff /\ safety_kill(h)) => RefusedAsProxied("kill")
       /\ (~RemoteAllowed /\ last'.op = "reset")
             => \A h \in Headers :
                   (h.xff /\ safety_reset(h)) => RefusedAsProxied("reset")
       /\ (~RemoteAllowed /\ last'.op = "status")
             => \A h \in Headers :
                   (h.xff /\ safety_status(h)) => RefusedAsProxied("status")
       /\ (~RemoteAllowed /\ last'.op = "scope_set")
             => \A h \in Headers, sc \in ScopeInputs :
                   (h.xff /\ scope_set(h, sc)) => RefusedAsProxied("scope_set")
       /\ ~RemoteAllowed
             => \A p \in Procs :
                   pc[p] = "ready"
                      => \A h \in Headers, t \in ReqTokens :
                            (h.xff /\ Begin(p, h, t)) => RefusedAsProxied("action")
       /\ RemoteAllowed
             => /\ \A h \in Headers : require_local_only(h)
                /\ last'.status # StatusForbidden
                      \/ last'.error # "proxied requests not allowed"]_vars

\* a move/click/type request with x-forwarded-for has been refused as proxied
\* while the system was killed: the guard answered before the kill switch
\* (SEEALLN_ALLOW_REMOTE is set, but not to 1)
C14_Witness ==
    /\ last = Proxied("action")
    /\ inner.killed
    /\ env.allow_remote # None
    /\ ~RemoteAllowed

\* C15 as stated: arm(ttl_ms=1000) returns token T, and 1100 ms later
\* is_armed(T) is false.
C15_ArmOneSecondExpired ==
    [][(last'.op = "arm" /\ last'.status = StatusOk)
          => \A h \in PlainHeaders, n \in ElapsedNanos :
                (require_local_only(h) /\ hands_arm(h, Some(1000), n))
                   => ~is_armed(inner', now + 1100, gen_token(n))]_vars

\* C15 amended: arm(ttl_ms=1000) returns token T and the ttl raised to the
\* minimum of 5000 ms; waiting changes nothing stored, so 1100 ms later, and
\* up to 5000 ms later, is_armed(T) is true and a consume_action(T) passes the
\* arming check; after more than 5000 ms is_armed(T) is false and
\* consume_action(T) fails with NotArmed.
C15_ArmOneSecondLastsFive ==
    [][/\ (last'.op = "arm" /\ last'.status = StatusOk)
             => \A h \in PlainHeaders, n \in ElapsedNanos :
                   (require_local_only(h) /\ hands_arm(h, Some(1000), n))
                      => /\ last'.ttl = MinTtlMs
                         /\ last'.token = Some(gen_token(n))
                         /\ is_armed(inner', now + 1100, gen_token(n))
                         /\ is_armed(inner', now + MinTtlMs, gen_token(n))
                         /\ ~is_armed(inner', now + MinTtlMs + 1, gen_token(n))
       /\ (now' # now) => inner' = inner
       /\ \A p \in Procs :
             (IsArmed(p) /\ inner.token = Some(req[p]) /\ inner.armed_until # None)
                => IF now <= Unwrap(inner.armed_until)
                   THEN pc'[p] = "rate" /\ last' = NoResp
                   ELSE /\ last'.consume = "not armed"
                        /\ pc'[p] = "ready"]_vars

\* armed at 0 with ttl_ms = 1000 (armed_until is 5000); 1100 ms later a
\* consume_action with that token has passed the arming check
C15_Witness ==
    /\ now = 1100
    /\ inner.armed_until = Some(MinTtlMs)
    /\ inner.token = Some(req["h1"])
    /\ pc["h1"] = "rate"

\* C16: in every reachable state armed_until and the token are both present
\* or both absent.
C16_ArmingBothOrNeither == (inner.armed_until = None) <=> (inner.token = None)

\* kill() has found a token armed and cleared both fields while a
\* consume_action that passed the arming check is still under way
C16_Witness ==
    /\ last.op = "kill"
    /\ last.found.armed
    /\ inner.armed_until = None
    /\ inner.token = None
    /\ pc["h1"] = "rate"

\* the rate window holds max_actions actions and has not elapsed
WindowFull ==
    /\ inner.window_start # None
    /\ now - Unwrap(inner.window_start) <= window_ms_cfg
    /\ inner.window_actions >= max_actions_cfg

\* C17: the checks of an action request run in a fixed order and the first
\* that fails decides the answer: proxied, then Killed (whatever the token),
\* then NotArmed (whatever the rate window), then RateLimited (before any
\* header but x-forwarded-for is read), then for click and type the missing
\* confirmation (whatever the text), then for type the length limit (also for
\* a sensitive text), then the sensitive content.
C17_CheckOrder ==
    [][/\ \A p \in Procs :
             (pc[p] = "ready" /\ (last'.op = "action" \/ pc'[p] # "ready"))
                => \A h \in PlainHeaders, t \in ReqTokens :
                      Begin(p, h, t)
                         => IF h.xff /\ ~RemoteAllowed
                            THEN /\ last'.status = StatusForbidden
                                 /\ last'.error = "proxied requests not allowed"
                                 /\ pc'[p] = "ready"
                            ELSE IF inner.killed
                            THEN /\ last'.status = StatusForbidden
                                 /\ last'.error = "killed"
                                 /\ pc'[p] = "ready"
                            ELSE pc'[p] = "is_armed" /\ last' = NoResp
       /\ \A p \in Procs :
             IsArmed(p)
                => IF ~Armed(req[p])
                   THEN /\ last'.status = StatusForbidden
                        /\ last'.error = "not armed"
                        /\ pc'[p] = "ready"
                   ELSE pc'[p] = "rate" /\ last' = NoResp
       /\ \A p \in Procs :
             Rate(p)
                => IF WindowFull \/ max_actions_cfg = 0
                   THEN /\ last'.status = StatusForbidden
                        /\ last'.error = "rate limited"
                        /\ pc'[p] = "ready"
                   ELSE pc'[p] = "policy" /\ last'.consume = "ok"
       /\ \A p \in Procs :
             (pc[p] = "policy" /\ pc'[p] # "policy")
                => (pc'[p] = "ready" /\ last'.op \in {"move", "click", "type"})
       \* consume_action has returned Ok to the handler: what hands_click and
       \* hands_type answer from there, for every request
       /\ (last.consume = "ok" /\ last' = NoResp)
             => /\ \A h \in LocalHeaders, b \in ButtonInputs, r \in InjectorResults :
                      IF ~ConfirmYes(h)
                      THEN click_response(h, b, r) = MissingConfirm("click")
                      ELSE click_response(h, b, r).status
                              \in {StatusOk, StatusInternalError, StatusNotImplemented}
                /\ \A h \in LocalHeaders, t \in TextInputs, r \in InjectorResults :
                      LET resp == type_response(h, t, r)
                      IN  IF ~ConfirmYes(h)
                          THEN resp = MissingConfirm("type")
                          ELSE IF Len(Texts[t]) > TextMax
                          THEN /\ resp.status = StatusBadRequest
                               /\ resp.error = "text too long (max 200)"
                          ELSE IF TextSensitive[t]
                          THEN /\ resp.status = StatusForbidden
                               /\ resp.error = "looks like login/MFA/CAPTCHA; refusing"
                          ELSE resp.status \in
                                  {StatusOk, StatusInternalError, StatusNotImplemented}]_vars

\* a request with a token that is not the stored one has been answered
\* Killed, not NotArmed
C17_Witness ==
    /\ last.error = "killed"
    /\ inner.killed
    /\ inner.token # None
    /\ last.token # inner.token

\* C18: a move request that passed consume_action while a scope is set does
\* not fail in the clamping, and the coordinates it hands to the injector lie
\* in [sx, sx+w-1] x [sy, sy+h-1], whatever the requested point and the
\* device size.
C18_MoveInsideScope ==
    (last.op = "move" /\ env.hands /\ inner.scope # None)
       => /\ last.error # "panic"
          /\ last.inject # None
          /\ InClosedRange(Unwrap(last.inject).x, Unwrap(inner.scope).x,
                           Unwrap(inner.scope).w)
          /\ InClosedRange(Unwrap(last.inject).y, Unwrap(inner.scope).y,
                           Unwrap(inner.scope).h)

\* C19: a consume_action that returns success raises the count of the
\* (possibly just restarted) rate window by one and touches nothing but the
\* window; what the handler does afterwards, whatever it answers (missing
\* confirmation, text too long, sensitive content, injector failure), leaves
\* the whole state as it is; the count never goes down except by a disarm, a
\* kill or the restart of the window in a rate check.
C19_SlotNeverRefunded ==
    [][/\ \A p \in Procs :
             (pc[p] = "rate" /\ last'.consume = "ok")
                => /\ inner'.window_actions =
                         (IF inner.window_start = None
                             \/ now - Unwrap(inner.window_start) > window_ms_cfg
                          THEN 0 ELSE inner.window_actions) + 1
                   /\ inner'.armed_until = inner.armed_until
                   /\ inner'.token = inner.token
                   /\ inner'.killed = inner.killed
                   /\ inner'.scope = inner.scope
       /\ \A p \in Procs :
             (pc[p] = "policy" /\ pc'[p] # "policy")
                => /\ last'.op \in {"move", "click", "type"}
                   /\ inner' = inner
       /\ (inner'.window_actions < inner.window_actions)
             => \/ last'.op \in {"disarm", "kill"}
                \/ last'.consume \in {"ok", "rate limited"}]_vars

\* a type request has been refused for its content after consume_action
\* counted it, and the slot is still counted
C19_Witness ==
    /\ last.op = "type"
    /\ last.status = StatusForbidden
    /\ last.error = "looks like login/MFA/CAPTCHA; refusing"
    /\ inner.window_actions = 2

\* C20: arm() changes only armed_until and the token (not killed, not the rate
\* window, not scope); reset_kill() changes only killed; disarm() leaves
\* killed and scope as they were and kill() leaves scope as it was;
\* set_scope changes only scope.
C20_ControlFrames ==
    [][/\ (last'.op = "arm" /\ last'.status = StatusOk)
             => /\ inner' = [inner EXCEPT !.armed_until = inner'.armed_until,
                                          !.token = inner'.token]
                /\ inner'.token = last'.token
                /\ inner'.armed_until = Some(now + last'.ttl)
       /\ (last'.op = "reset" /\ last'.status = StatusOk)
             => inner' = [inner EXCEPT !.killed = FALSE]
       /\ (last'.op = "disarm" /\ last'.status = StatusOk)
             => (inner'.killed = inner.killed /\ inner'.scope = inner.scope)
       /\ (last'.op = "kill" /\ last'.status = StatusOk)
             => (inner'.killed /\ inner'.scope = inner.scope)
       /\ (last'.op = "scope_set" /\ last'.status = StatusOk)
             => inner' = [inner EXCEPT !.scope = inner'.scope]]_vars

\* a re-arm has returned while the rate window is exhausted: the window is
\* still full and has not elapsed
C20_Witness ==
    /\ last.op = "arm"
    /\ last.status = StatusOk
    /\ max_actions_cfg >= 1
    /\ WindowFull
    /\ inner.scope # None

Min(a, b) == IF a < b THEN a ELSE b

\* C21: with a fixed max_actions and two handlers racing, the count never
\* exceeds max_actions, and of the calls that reached the current rate window
\* exactly min(calls, max_actions) succeeded, each success counted once: so of
\* N calls racing from count c exactly min(N, max_actions - c) succeed.
C21_RaceSerialized ==
    /\ inner.window_actions <= max_actions_cfg
    /\ inner.window_start # None
          => /\ Len(hist.win) = inner.window_actions
             /\ Len(hist.win) = Min(hist.calls, max_actions_cfg)

\* two handlers had both read the clock for the rate check with one slot
\* left; one has just taken it and the other is still to take the lock
C21_Witness ==
    /\ last.consume = "ok"
    /\ pc["h1"] = "policy"
    /\ pc["h2"] = "rate"
    /\ tnow["h2"] # None
    /\ hist.calls = max_actions_cfg
    /\ inner.window_actions = max_actions_cfg

\* the latest max_actions + 1 successes lie less than window_ms apart
Burst ==
    /\ Len(hist.recent) = max_actions_cfg + 1
    /\ hist.recent[max_actions_cfg + 1] - hist.recent[1] < window_ms_cfg

\* C22 as stated: no interval of length window_ms holds more than max_actions
\* successful consume_action calls.
C22_AtMostMaxPerInterval == ~Burst

\* C22 amended: between two restarts of the rate window (by a rate check
\* after window_ms, or after a disarm or a kill cleared it) at most
\* max_actions calls succeed, each at or after the start of the window.
C22_AtMostMaxPerWindow ==
    /\ Len(hist.win) <= max_actions_cfg
    /\ inner.window_start # None
          => \A k \in 1..Len(hist.win) : hist.win[k] >= Unwrap(inner.window_start)

\* more than max_actions successes less than window_ms apart: the latest one
\* is the first of a window that was restarted in between
C22_Witness ==
    /\ Burst
    /\ last.consume = "ok"
    /\ inner.window_start # None
    /\ Len(hist.win) = 1

\* C23: in every reachable state a cleared arming implies a cleared rate
\* window: while no token is stored, window_start is absent and the count is 0.
C23_ClearedArmingClearedWindow ==
    inner.token = None
       => (inner.window_start = None /\ inner.window_actions = 0)

====
